---- MODULE Spec2Model ----
(***************************************************************************)
(* Model of ConvertAll.py: batch conversion of the PPT/PPTX files of a     *)
(* folder to PDF, through PowerPoint automation (win32) or a headless      *)
(* LibreOffice child process (every other platform).                       *)
(*                                                                         *)
(* File names are sequences of one-character strings, so that lower(),     *)
(* endswith() and os.path.splitext() are computed and not assumed.         *)
(* Every step whose result depends on the environment (import, makedirs,   *)
(* listdir, COM calls, the child process) is a nondeterministic choice     *)
(* over the results that step can have.                                    *)
(***************************************************************************)
EXTENDS Integers, Sequences, FiniteSets, TLC

\* ---------------------------------------------------------------- bounds
\* largest number of entries the input folder holds
MaxEntries == 3

\* ---------------------------------------------------------- file names
N_aPPTX == <<"a", ".", "P", "P", "T", "X">>
N_appt  == <<"a", ".", "p", "p", "t">>
N_bppt  == <<"b", ".", "p", "p", "t">>
N_txt   == <<"n", ".", "t", "x", "t">>
N_dot   == <<".", "p", "p", "t">>
N_dir   == <<"d", ".", "p", "p", "t">>

\* entries the input folder may hold; N_dir is a sub-directory
Universe == {N_aPPTX, N_appt, N_bppt, N_txt, N_dot, N_dir}

FolderSets == {S \in SUBSET Universe : Cardinality(S) <= MaxEntries}

\* os.path.isfile(os.path.join(input_folder, f))
isfile(f) == f # N_dir

\* str.lower(), character by character
lowerChar(c) ==
    CASE c = "P" -> "p"
      [] c = "T" -> "t"
      [] c = "X" -> "x"
      [] OTHER -> c

lower(s) == [i \in 1..Len(s) |-> lowerChar(s[i])]

\* str.endswith(suffix)
endswith(s, suf) ==
    /\ Len(s) >= Len(suf)
    /\ SubSeq(s, Len(s) - Len(suf) + 1, Len(s)) = suf

exts == {<<".", "p", "p", "t">>, <<".", "p", "p", "t", "x">>}

\* the filter of the three list comprehensions
IsMatchAnyFile(f) == isfile(f)

IsMatch(f) == isfile(f) /\ \E e \in exts : endswith(lower(f), e)

\* the orders in which os.listdir may hand back the matching entries
Listings(entries) ==
    LET M == {f \in entries : IsMatch(f)}
        n == Cardinality(M)
    IN  {s \in [1..n -> M] : \A i, j \in 1..n : s[i] = s[j] => i = j}

\* os.path.splitext(p)[0]: cut at the last dot, unless only dots precede it
splitext_root(p) ==
    LET dots == {i \in 1..Len(p) : p[i] = "."}
    IN  IF dots = {} THEN p
        ELSE LET dotIndex == CHOOSE i \in dots : \A j \in dots : j <= i
             IN  IF \E k \in 1..(dotIndex - 1) : p[k] # "."
                 THEN SubSeq(p, 1, dotIndex - 1)
                 ELSE p

output_name_keep_ext(input_file_name) == input_file_name \o <<".", "p", "d", "f">>

output_name(input_file_name) == splitext_root(input_file_name) \o <<".", "p", "d", "f">>

\* ------------------------------------------------------------------ state
VARIABLES
    pc,             \* position of the single thread of control
    argc,           \* len(sys.argv)
    platform,       \* sys.platform: "win32" or "other"
    dirs,           \* directories that exist, among "in" (argv[1]) and "out" (argv[2])
    dirs0,          \* the directories that existed when the run began
    folder,         \* entries of the input folder
    changed,        \* the folder's contents changed while the run was in progress
    output_folder,  \* main's output_folder: "unset", "in" or "out"
    entered,        \* backend function main called: "none", "com" or "lo"
    main_files,     \* main's list `files` (line 119)
    files,          \* the backend function's list `files` (line 41 or 65)
    idx,            \* position of the for loop of line 76
    comtypes,       \* outcome of `import comtypes.client`
    powerpoint,     \* "None" or "app"
    created,        \* CreateObject calls that returned an application
    quitCalls,      \* calls of powerpoint.Quit()
    quitRaised,     \* some Quit() call raised
    openPres,       \* presentations opened and not closed
    attempts,       \* file names handed to Presentations.Open, in call order
    log,            \* lines printed, as records
    written,        \* PDF names SaveAs wrote into the output folder
    pending,        \* exception travelling through the try/finally of line 73
    soffice,        \* outcome of the converter lookup
    childStarts,    \* soffice child processes started
    childArgs,      \* file arguments of the last child process
    loResult,       \* how convert_with_libreoffice ended
    runOutcome,     \* how subprocess.run ended
    printedCount,   \* the count of main's success message, -1 if not printed
    uncaught,       \* exception that left main, "none" otherwise
    exitCode        \* process exit status, -1 while running

vars == <<pc, argc, platform, dirs, dirs0, folder, changed, output_folder,
          entered, main_files, files, idx, comtypes, powerpoint, created,
          quitCalls, quitRaised, openPres, attempts, log, written, pending,
          soffice, childStarts, childArgs, loResult, runOutcome, printedCount,
          uncaught, exitCode>>

fsVars  == <<dirs, folder, changed, written>>
comVars == <<idx, comtypes, powerpoint, created, quitCalls, quitRaised,
             openPres, attempts, pending>>
comVars_noidx == <<comtypes, powerpoint, created, quitCalls, quitRaised,
                   openPres, attempts, pending>>
loVars  == <<soffice, childStarts, childArgs, loResult, runOutcome, printedCount>>

Init ==
    /\ pc = "main"
    /\ argc \in {1, 2, 3}
    /\ platform \in {"win32", "other"}
    /\ dirs \in SUBSET {"in", "out"}
    /\ dirs0 = dirs
    /\ folder \in FolderSets
    /\ ("in" \notin dirs) => folder = {}   \* a missing folder has no entries
    /\ changed = FALSE
    /\ output_folder = "unset"
    /\ entered = "none"
    /\ main_files = <<>>
    /\ files = <<>>
    /\ idx = 0
    /\ comtypes = "unknown"
    /\ powerpoint = "None"
    /\ created = 0
    /\ quitCalls = 0
    /\ quitRaised = FALSE
    /\ openPres = {}
    /\ attempts = <<>>
    /\ log = <<>>
    /\ written = {}
    /\ pending = "none"
    /\ soffice = "unknown"
    /\ childStarts = 0
    /\ childArgs = <<>>
    /\ loResult = "none"
    /\ runOutcome = "none"
    /\ printedCount = -1
    /\ uncaught = "none"
    /\ exitCode = -1

\* sys.exit(code), or main returning (code 0)
Exit(code) ==
    /\ pc' = "done"
    /\ exitCode' = code

\* an exception nobody catches: the interpreter prints it and exits with 1
Raise(e) ==
    /\ uncaught' = e
    /\ Exit(1)

\* os.path.isdir(path)
isdir_always(path) == TRUE

isdir(path) == path \in dirs

\* os.makedirs(path, exist_ok=True), when it does not raise
makedirs_noop(path) == dirs

makedirs(path) == dirs \cup {path}

\* ------------------------------------------------------------------- main
\* lines 96-102: the usage check and the two folder arguments
MainArgs ==
    /\ pc = "main"
    /\ IF argc < 2
       THEN /\ log' = Append(log, [kind |-> "Usage", name |-> <<>>])
            /\ Exit(1)
            /\ UNCHANGED output_folder
       ELSE /\ output_folder' = IF argc > 2 THEN "out" ELSE "in"
            /\ pc' = "isdir"
            /\ UNCHANGED <<log, exitCode>>
    /\ UNCHANGED <<argc, platform, dirs0, entered, main_files, files, uncaught>>
    /\ UNCHANGED <<fsVars, comVars, loVars>>

\* lines 104-108: the folder check and the platform branch
MainIsDir ==
    /\ pc = "isdir"
    /\ IF ~isdir("in")
       THEN /\ log' = Append(log, [kind |-> "NoInputFolder", name |-> <<>>])
            /\ Exit(1)
            /\ UNCHANGED entered
       ELSE /\ IF platform = "win32"
               THEN pc' = "com_import" /\ entered' = "com"
               ELSE pc' = "main_list" /\ UNCHANGED entered
            /\ UNCHANGED <<log, exitCode>>
    /\ UNCHANGED <<argc, platform, dirs0, output_folder, main_files, files, uncaught>>
    /\ UNCHANGED <<fsVars, comVars, loVars>>

\* ------------------------------------------- convert_with_powerpoint_com
mainVars == <<argc, platform, dirs0, output_folder, entered, main_files>>

\* line 58: the import; main's `except ImportError` (lines 112-114)
ComImport ==
    /\ pc = "com_import"
    /\ \E ok \in BOOLEAN :
         IF ok
         THEN /\ comtypes' = "ok"
              /\ pc' = "com_mkdir"
              /\ UNCHANGED <<log, exitCode>>
         ELSE /\ comtypes' = "missing"
              /\ log' = Append(log, [kind |-> "InstallComtypes", name |-> <<>>])
              /\ Exit(1)
    /\ UNCHANGED <<mainVars, files, uncaught, fsVars, loVars>>
    /\ UNCHANGED <<idx, powerpoint, created, quitCalls, quitRaised, openPres,
                   attempts, pending>>

\* lines 60-62: makedirs creates the folder, or raises when it cannot
ComMkdir ==
    /\ pc = "com_mkdir"
    /\ \/ /\ dirs' = makedirs(output_folder)
          /\ pc' = "com_list"
          /\ UNCHANGED <<uncaught, exitCode>>
       \/ /\ output_folder \notin dirs
          /\ Raise("makedirs OSError")
          /\ UNCHANGED dirs
    /\ UNCHANGED <<mainVars, files, log, comVars, loVars>>
    /\ UNCHANGED <<folder, changed, written>>

\* lines 64-70: the listing, the filter and the empty case
ComList ==
    /\ pc = "com_list"
    /\ \/ \E order \in Listings(folder) :
            /\ files' = order
            /\ IF order = <<>>
               THEN /\ log' = Append(log, [kind |-> "NoFiles", name |-> <<>>])
                    /\ Exit(0)
               ELSE /\ pc' = "com_create"
                    /\ UNCHANGED <<log, exitCode>>
            /\ UNCHANGED uncaught
       \/ /\ Raise("listdir OSError")
          /\ UNCHANGED <<files, log>>
    /\ UNCHANGED <<mainVars, fsVars, comVars, loVars>>

\* lines 72-74: CreateObject returns the application or raises
ComCreate ==
    /\ pc = "com_create"
    /\ \/ /\ powerpoint' = "app"
          /\ created' = created + 1
          /\ pc' = "com_visible"
          /\ UNCHANGED pending
       \/ /\ pending' = "COMError"
          /\ pc' = "com_finally"
          /\ UNCHANGED <<powerpoint, created>>
    /\ UNCHANGED <<mainVars, files, log, uncaught, exitCode, fsVars, loVars>>
    /\ UNCHANGED <<idx, comtypes, quitCalls, quitRaised, openPres, attempts>>

\* line 75: powerpoint.Visible = 1; then the loop starts (files is not empty)
ComVisible ==
    /\ pc = "com_visible"
    /\ \/ /\ idx' = 1
          /\ pc' = "com_open"
          /\ UNCHANGED pending
       \/ /\ pending' = "COMError"
          /\ pc' = "com_finally"
          /\ UNCHANGED idx
    /\ UNCHANGED <<mainVars, files, log, uncaught, exitCode, fsVars, loVars>>
    /\ UNCHANGED <<comtypes, powerpoint, created, quitCalls, quitRaised,
                   openPres, attempts>>

\* line 76: the loop goes to file n, or ends after the last file
Advance(n) ==
    /\ idx' = n
    /\ pc' = IF n > Len(files) THEN "com_finally" ELSE "com_open"

\* a handler that gives up on the rest of the batch
handler_abort(i) == Len(files) + 1

\* where the loop goes on after the handler of lines 85-86 ran for file i
handler_next(i) == i + 1

\* lines 85-86: the handler prints the file name and the loop goes on
FileError ==
    /\ log' = Append(log, [kind |-> "Error", name |-> files[idx]])
    /\ Advance(handler_next(idx))

\* lines 77-81: Presentations.Open(input_file_path)
ComOpen ==
    /\ pc = "com_open"
    /\ idx <= Len(files)
    /\ attempts' = Append(attempts, files[idx])
    /\ \/ /\ openPres' = openPres \cup {files[idx]}
          /\ pc' = "com_saveas"
          /\ UNCHANGED <<idx, log>>
       \/ /\ FileError
          /\ UNCHANGED openPres
    /\ UNCHANGED <<mainVars, files, uncaught, exitCode, fsVars, loVars>>
    /\ UNCHANGED <<comtypes, powerpoint, created, quitCalls, quitRaised, pending>>

\* line 82: slides.SaveAs(output_file_path, 32)
ComSaveAs ==
    /\ pc = "com_saveas"
    /\ \/ /\ written' = written \cup {output_name(files[idx])}
          /\ pc' = "com_close"
          /\ UNCHANGED <<idx, log>>
       \/ /\ FileError
          /\ UNCHANGED written
    /\ UNCHANGED <<mainVars, files, uncaught, exitCode, loVars>>
    /\ UNCHANGED <<dirs, folder, changed, comVars_noidx>>

\* lines 83-84: slides.Close() and the "Converted" line
ComClose ==
    /\ pc = "com_close"
    /\ \/ /\ openPres' = openPres \ {files[idx]}
          /\ log' = Append(log, [kind |-> "Converted", name |-> files[idx]])
          /\ Advance(idx + 1)
       \/ /\ FileError
          /\ UNCHANGED openPres
    /\ UNCHANGED <<mainVars, files, uncaught, exitCode, fsVars, loVars>>
    /\ UNCHANGED <<comtypes, powerpoint, created, quitCalls, quitRaised,
                   attempts, pending>>

\* how the function is left: a pending exception goes on to main, which
\* catches ImportError only; otherwise main returns
ComLeave ==
    IF pending # "none" THEN Raise(pending) ELSE Exit(0) /\ UNCHANGED uncaught

\* the same function with Quit after the loop instead of in a finally block
ComFinally_after_loop ==
    /\ pc = "com_finally"
    /\ IF powerpoint # "None" /\ pending = "none"
       THEN /\ quitCalls' = quitCalls + 1
            /\ \E raised \in BOOLEAN : quitRaised' = (quitRaised \/ raised)
       ELSE UNCHANGED <<quitCalls, quitRaised>>
    /\ ComLeave
    /\ UNCHANGED <<mainVars, files, log, fsVars, loVars>>
    /\ UNCHANGED <<idx, comtypes, powerpoint, created, openPres, attempts, pending>>

\* lines 87-92: the finally block; an exception of Quit is swallowed
ComFinally ==
    /\ pc = "com_finally"
    /\ IF powerpoint # "None"
       THEN /\ quitCalls' = quitCalls + 1
            /\ \E raised \in BOOLEAN : quitRaised' = (quitRaised \/ raised)
       ELSE UNCHANGED <<quitCalls, quitRaised>>
    /\ ComLeave
    /\ UNCHANGED <<mainVars, files, log, fsVars, loVars>>
    /\ UNCHANGED <<idx, comtypes, powerpoint, created, openPres, attempts, pending>>

\* ------------------------------------- main, the branch of other platforms
\* lines 117-123: main's own listing and the empty case
MainList ==
    /\ pc = "main_list"
    /\ \/ \E order \in Listings(folder) :
            /\ main_files' = order
            /\ IF order = <<>>
               THEN /\ log' = Append(log, [kind |-> "NoFiles", name |-> <<>>])
                    /\ Exit(0)
                    /\ UNCHANGED entered
               ELSE /\ pc' = "lo_lookup"
                    /\ entered' = "lo"
                    /\ UNCHANGED <<log, exitCode>>
            /\ UNCHANGED uncaught
       \/ /\ Raise("listdir OSError")
          /\ UNCHANGED <<main_files, log, entered>>
    /\ UNCHANGED <<argc, platform, dirs0, output_folder, files>>
    /\ UNCHANGED <<fsVars, comVars, loVars>>

\* another process adds or removes entries of the input folder after main
\* has listed it and before the backend lists it
EnvChange ==
    /\ pc \in {"lo_lookup", "lo_mkdir", "lo_list"}
    /\ ~changed
    /\ \E S \in FolderSets \ {folder} : folder' = S
    /\ changed' = TRUE
    /\ UNCHANGED <<pc, mainVars, files, log, uncaught, exitCode, dirs, written>>
    /\ UNCHANGED <<comVars, loVars>>

\* ------------------------------------------------ convert_with_libreoffice
\* lines 124-129: what main does with the function's result
LoReturn(result) ==
    /\ loResult' = IF result THEN "True" ELSE "False"
    /\ IF result
       THEN /\ printedCount' = Len(main_files)
            /\ log' = Append(log, [kind |-> "ConvertedCount", name |-> <<>>])
            /\ Exit(0)
       ELSE /\ log' = Append(log, [kind |-> "InstallLibreOffice", name |-> <<>>])
            /\ Exit(1)
            /\ UNCHANGED printedCount
    /\ UNCHANGED uncaught

\* an exception leaves the function and then main
LoRaise(e) ==
    /\ loResult' = "raised"
    /\ Raise(e)
    /\ UNCHANGED <<printedCount, log>>

\* lines 23-34: the lookup among the candidates
LoLookup ==
    /\ pc = "lo_lookup"
    /\ \E found \in BOOLEAN :
         IF found
         THEN /\ soffice' = "found"
              /\ pc' = "lo_mkdir"
              /\ UNCHANGED <<loResult, printedCount, log, uncaught, exitCode>>
         ELSE /\ soffice' = "None"
              /\ LoReturn(FALSE)
    /\ UNCHANGED <<mainVars, files, fsVars, comVars>>
    /\ UNCHANGED <<childStarts, childArgs, runOutcome>>

\* lines 36-38
LoMkdir ==
    /\ pc = "lo_mkdir"
    /\ \/ /\ dirs' = makedirs(output_folder)
          /\ pc' = "lo_list"
          /\ UNCHANGED <<loResult, printedCount, log, uncaught, exitCode>>
       \/ /\ output_folder \notin dirs
          /\ LoRaise("makedirs OSError")
          /\ UNCHANGED dirs
    /\ UNCHANGED <<mainVars, files, folder, changed, written, comVars>>
    /\ UNCHANGED <<soffice, childStarts, childArgs, runOutcome>>

\* lines 40-44: the function's own listing and the empty case
LoList ==
    /\ pc = "lo_list"
    /\ \/ \E order \in Listings(folder) :
            /\ files' = order
            /\ IF order = <<>>
               THEN LoReturn(TRUE)
               ELSE /\ pc' = "lo_run"
                    /\ UNCHANGED <<loResult, printedCount, log, uncaught, exitCode>>
       \/ /\ LoRaise("listdir OSError")
          /\ UNCHANGED files
    /\ UNCHANGED <<mainVars, fsVars, comVars>>
    /\ UNCHANGED <<soffice, childStarts, childArgs, runOutcome>>

\* results of subprocess.run(cmd, check=True, capture_output=True, timeout=300)
RunOutcomes == {"ok", "CalledProcessError", "TimeoutExpired",
                "FileNotFoundError", "PermissionError"}

\* the child process exists when run() returns or reports its exit or timeout
Started(o) == o \in {"ok", "CalledProcessError", "TimeoutExpired"}

\* the except clause of line 51
Caught == {"CalledProcessError", "FileNotFoundError", "TimeoutExpired"}

\* lines 46-53
LoRun ==
    /\ pc = "lo_run"
    /\ \E o \in RunOutcomes :
         /\ runOutcome' = o
         /\ childArgs' = files
         /\ childStarts' = IF Started(o) THEN childStarts + 1 ELSE childStarts
         /\ IF o = "ok" THEN LoReturn(TRUE)
            ELSE IF o \in Caught THEN LoReturn(FALSE)
            ELSE LoRaise(o)
    /\ UNCHANGED <<mainVars, files, fsVars, comVars, soffice>>

\* ---------------------------------------------------------- specification
Next ==
    \/ MainArgs
    \/ MainIsDir
    \/ ComImport
    \/ ComMkdir
    \/ ComList
    \/ ComCreate
    \/ ComVisible
    \/ ComOpen
    \/ ComSaveAs
    \/ ComClose
    \/ ComFinally
    \/ MainList
    \/ EnvChange
    \/ LoLookup
    \/ LoMkdir
    \/ LoList
    \/ LoRun

Spec == Init /\ [][Next]_vars

TypeOK ==
    /\ pc \in {"main", "isdir", "com_import", "com_mkdir", "com_list",
               "com_create", "com_visible", "com_open", "com_saveas",
               "com_close", "com_finally", "main_list", "lo_lookup",
               "lo_mkdir", "lo_list", "lo_run", "done"}
    /\ exitCode \in {-1, 0, 1}
    /\ (pc = "done") = (exitCode # -1)

\* ------------------------------------------------------------ properties
Done == pc = "done"

\* the run got past the usage check and found its input folder
Validated == argc >= 2 /\ "in" \in dirs0

\* the entries of Universe that are regular files named *.ppt / *.pptx in
\* any letter case, listed by hand
PptNames == {N_aPPTX, N_appt, N_bppt, N_dot}

NoPresentation == ~changed /\ folder \cap PptNames = {}

Range(s) == {s[i] : i \in 1..Len(s)}

\* C1: convert_with_libreoffice always ends by returning a boolean, and
\* returns False when the converter is not found, cannot be executed, exits
\* non-zero or times out.
C1_NeverRaises ==
    (Done /\ entered = "lo") =>
        /\ loResult \in {"True", "False"}
        /\ (soffice = "None" \/ runOutcome \in (RunOutcomes \ {"ok", "none"}))
              => loResult = "False"

\* C2 as stated: a validated run over a folder without presentation ends
\* with exit code 0 and without any converter, whatever is installed.
C2_EmptyExitsZero ==
    (Done /\ Validated /\ NoPresentation) =>
        /\ exitCode = 0
        /\ created = 0
        /\ childStarts = 0

\* C2 as amended: such a run starts no converter; it ends with exit code 0
\* unless comtypes is missing on win32 or makedirs / listdir raised, and
\* with exit code 1 in those cases.
C2_EmptyNoConverter ==
    (Done /\ Validated /\ NoPresentation) =>
        /\ created = 0
        /\ childStarts = 0
        /\ powerpoint = "None"
        /\ exitCode \in {0, 1}
        /\ (exitCode = 1) <=>
              \/ platform = "win32" /\ comtypes = "missing"
              \/ uncaught \in {"makedirs OSError", "listdir OSError"}

C2_Witness ==
    /\ Done
    /\ Validated
    /\ platform = "win32"
    /\ comtypes = "ok"
    /\ folder = {N_txt, N_dir}
    /\ ~changed
    /\ exitCode = 0

\* C3: when the first argument is not an existing directory the run ends
\* with exit code 1, creates nothing and enters no backend.
C3_MissingFolder ==
    (Done /\ argc >= 2 /\ "in" \notin dirs0) =>
        /\ exitCode = 1
        /\ dirs = dirs0
        /\ written = {}
        /\ entered = "none"
        /\ created = 0
        /\ childStarts = 0

C3_Witness ==
    /\ Done
    /\ argc = 3
    /\ dirs0 = {}
    /\ platform = "win32"
    /\ log = <<[kind |-> "NoInputFolder", name |-> <<>>]>>
    /\ exitCode = 1

\* C4: the exit code is 0 or 1, and it is 1 exactly when the argument is
\* missing, the input folder does not exist, comtypes is missing on win32,
\* or the headless backend returned failure on another platform.
C4_ExitCodes ==
    Done =>
        /\ exitCode \in {0, 1}
        /\ (exitCode = 1) <=>
              \/ argc < 2
              \/ "in" \notin dirs0
              \/ platform = "win32" /\ comtypes = "missing"
              \/ platform # "win32" /\ loResult = "False"

\* C5: the application is created at most once; Quit is not called while
\* the batch runs, is called exactly once by the time the function is left
\* whenever creation succeeded (and never otherwise), and what leaves the
\* function is the exception that was already pending, never Quit's own.
C5_QuitOnce ==
    /\ created <= 1
    /\ quitCalls <= created
    /\ (pc \in {"com_visible", "com_open", "com_saveas", "com_close", "com_finally"}
          => quitCalls = 0)
    /\ (Done /\ created = 1) => quitCalls = 1
    /\ (Done /\ entered = "com" /\ comtypes = "ok" /\ files # <<>>)
          => /\ uncaught = pending
             /\ exitCode = IF pending = "none" THEN 0 ELSE 1

C5_Witness ==
    /\ Done
    /\ powerpoint = "app"
    /\ pending = "COMError"
    /\ quitCalls = 1
    /\ quitRaised
    /\ uncaught = "COMError"

\* C6: once the application is set up, every discovered file is handed to
\* Open exactly once, in list order, whatever Open, SaveAs or Close raise;
\* each file leaves exactly one line with its name, an error line for a
\* file that failed, and no per-file exception leaves the function.
C6_EveryFileAttempted ==
    /\ Len(attempts) <= Len(files)
    /\ \A i \in 1..Len(attempts) : attempts[i] = files[i]
    /\ (Done /\ entered = "com" /\ idx >= 1) =>
          /\ attempts = files
          /\ Len(log) = Len(files)
          /\ \A i \in 1..Len(files) :
                /\ log[i].name = files[i]
                /\ log[i].kind \in {"Converted", "Error"}
                /\ log[i].kind = "Converted" =>
                      /\ files[i] \notin openPres
                      /\ output_name(files[i]) \in written
          /\ uncaught = "none"
          /\ exitCode = 0

C6_Witness ==
    /\ Done
    /\ entered = "com"
    /\ Len(files) = 3
    /\ attempts = files
    /\ log[1].kind = "Error"
    /\ log[2].kind = "Error"
    /\ log[3].kind = "Converted"

\* the run reached the makedirs call of its backend
ReachedMakedirs ==
    \/ platform = "win32" /\ comtypes = "ok"
    \/ platform # "win32" /\ main_files # <<>> /\ soffice = "found"

\* C7 as stated: a validated run with a missing output folder argument
\* leaves that folder in existence; without the argument the output folder
\* is the input folder.
C7_OutputCreated ==
    /\ (Done /\ Validated /\ argc = 3 /\ "out" \notin dirs0) => "out" \in dirs
    /\ (pc # "main" /\ argc = 2) => output_folder = "in"

\* C7 as amended: the folder exists at the end exactly when the run reached
\* the backend's makedirs call and that call did not raise.
C7_OutputCreatedWhenReached ==
    /\ (Done /\ Validated /\ argc = 3 /\ "out" \notin dirs0) =>
          ("out" \in dirs <=> (ReachedMakedirs /\ uncaught # "makedirs OSError"))
    /\ (pc # "main" /\ argc = 2) => output_folder = "in"

C7_Witness ==
    /\ Done
    /\ argc = 3
    /\ dirs0 = {"in"}
    /\ dirs = {"in", "out"}
    /\ platform = "other"
    /\ loResult = "False"
    /\ runOutcome = "TimeoutExpired"

\* C8: no presentation is open when the next file is about to be opened,
\* when the application is about to be quit, or after the function.
C8_ClosedBeforeNext ==
    (pc \in {"com_open", "com_finally"} \/ (Done /\ entered = "com"))
        => openPres = {}

\* C9: when main prints its success message, one child process was started
\* with exactly the files main discovered, and the printed count is the
\* number of files handed to it.
C9_CountMatches ==
    (Done /\ platform # "win32" /\ loResult = "True") =>
        /\ childStarts = 1
        /\ Range(childArgs) = Range(main_files)
        /\ printedCount = Len(childArgs)

\* a batch of the automation backend in which every conversion succeeded
AllConverted ==
    /\ Done
    /\ entered = "com"
    /\ idx >= 1
    /\ Len(log) = Len(files)
    /\ \A i \in 1..Len(log) : log[i].kind = "Converted"

\* C10 as stated: distinct discovered names get distinct PDF names, and N
\* successful conversions leave N PDFs.
C10_Injective ==
    /\ entered = "com" =>
          \A i, j \in 1..Len(files) :
              output_name(files[i]) = output_name(files[j]) => i = j
    /\ AllConverted => Cardinality(written) = Len(files)

\* the PDF name expected for each presentation of Universe, listed by hand
ExpectedPdf(f) ==
    CASE f = N_aPPTX -> <<"a", ".", "p", "d", "f">>
      [] f = N_appt  -> <<"a", ".", "p", "d", "f">>
      [] f = N_bppt  -> <<"b", ".", "p", "d", "f">>
      [] f = N_dot   -> <<".", "p", "p", "t", ".", "p", "d", "f">>

\* C10 as amended: the PDF name is the name without its last extension plus
\* .pdf, so two discovered names collide exactly when they differ in the
\* extension only, and a fully successful batch leaves one PDF per distinct
\* base name.
C10_OnePdfPerBaseName ==
    /\ entered = "com" =>
          \A i \in 1..Len(files) : output_name(files[i]) = ExpectedPdf(files[i])
    /\ AllConverted =>
          /\ written = {ExpectedPdf(f) : f \in Range(files)}
          /\ Cardinality(written) <= Len(files)

C10_Witness ==
    /\ AllConverted
    /\ N_aPPTX \in Range(files)
    /\ N_appt \in Range(files)
    /\ N_bppt \in Range(files)
    /\ Cardinality(written) = 2

====
